---- MODULE Spec2Model ----
(***************************************************************************)
(* Verification model of the three maintenance scripts of                  *)
(* packages/wunderland:                                                    *)
(*   scripts/author_rewrite.py   git filter-repo commit callback           *)
(*   scripts/rename_commits.py   git filter-repo message callback          *)
(*   update_lemon_upsert.py      one-shot literal text patcher             *)
(* Byte strings and Python strings are TLA+ strings over ASCII.  The three *)
(* scripts share no state; each has its own specification, in which the    *)
(* variables of the other two stay at their idle values.                   *)
(***************************************************************************)
EXTENDS Integers, Sequences, FiniteSets, TLC

VARIABLES
    \* author_rewrite.py
    commit,      \* the commit object the engine hands to the callback
    orig,        \* the same commit as it was handed over (history)
    ipc,         \* "ready": callback not yet run on commit, "done": it has
    \* rename_commits.py
    message,     \* raw message handed to rename_message ("" also stands for None)
    nfrags,      \* number of fragments appended to build message
    mpc,         \* "build" | "done"
    first,       \* local `first` of rename_message
    rest,        \* local `rest` of rename_message
    classified,  \* value of classify(subj) inside normalize_subject
    subj,        \* local `subj` of rename_message
    result,      \* returned message
    \* update_lemon_upsert.py
    exists,      \* whether the file at `path` exists
    disk,        \* content of the file at `path`
    disk0,       \* content of the file before the script ran (history)
    nparts,      \* number of parts appended to build disk
    ppc,         \* "build" | "exit"
    exitCode,    \* process exit status
    stderr,      \* what the interpreter printed on abort
    writes       \* number of write_text calls performed

identityVars == <<commit, orig, ipc>>
messageVars == <<message, nfrags, mpc, first, rest, classified, subj, result>>
patchVars == <<exists, disk, disk0, nparts, ppc, exitCode, stderr, writes>>
vars == <<identityVars, messageVars, patchVars>>

(***************************************************************************)
(* Generic string helpers (Python str semantics on ASCII).                 *)
(***************************************************************************)
\* s[i-1:i]: the character at 1-based position i, "" outside the string
CharAt(s, i) == IF i \in 1..Len(s) THEN SubSeq(s, i, i) ELSE ""

\* s[i:] with 1-based i
From(s, i) == SubSeq(s, i, Len(s))

\* str.isspace() / regex \s on ASCII
Whitespace == {" ", "\t", "\n", "\r", "\f"}

IsSpace(c) == c \in Whitespace

Lower == "abcdefghijklmnopqrstuvwxyz"

Upper == "ABCDEFGHIJKLMNOPQRSTUVWXYZ"

Digits == "0123456789"

\* the characters of a string, as a set
CharsOf(s) == {CharAt(s, i) : i \in 1..Len(s)}

\* regex [A-Za-z]
Letters == CharsOf(Lower) \cup CharsOf(Upper)

WordChars == Letters \cup CharsOf(Digits) \cup {"_"}

\* regex \w on ASCII
IsWordChar(c) == c \in WordChars

LowerOf == [c \in CharsOf(Upper) |-> CharAt(Lower, CHOOSE i \in 1..26 : CharAt(Upper, i) = c)]

\* str.lower() of one character
LowerChar(c) == IF c \in DOMAIN LowerOf THEN LowerOf[c] ELSE c

\* "".join(pieces[lo:hi + 1]) for a sequence of strings, split in halves
RECURSIVE Join(_, _, _)
Join(pieces, lo, hi) ==
    IF lo > hi THEN ""
    ELSE IF lo = hi THEN pieces[lo]
    ELSE LET mid == (lo + hi) \div 2 IN Join(pieces, lo, mid) \o Join(pieces, mid + 1, hi)

\* str.lower()
ToLower(s) == Join([i \in 1..Len(s) |-> LowerChar(CharAt(s, i))], 1, Len(s))

\* last position of the run of characters of the set chars that starts at i
\* (i - 1 if the character at i is not in chars)
SpanFrom(chars, s, i) ==
    LET stop == CHOOSE j \in i..(Len(s) + 1) :
                    /\ j = Len(s) + 1 \/ CharAt(s, j) \notin chars
                    /\ \A k \in i..(j - 1) : CharAt(s, k) \in chars
    IN stop - 1

\* str.lstrip()
LStrip(s) == From(s, SpanFrom(Whitespace, s, 1) + 1)

\* str.rstrip()
RStrip(s) ==
    LET last == CHOOSE j \in 0..Len(s) :
                    /\ j = 0 \/ ~IsSpace(CharAt(s, j))
                    /\ \A k \in (j + 1)..Len(s) : IsSpace(CharAt(s, k))
    IN SubSeq(s, 1, last)

\* str.strip()
Strip(s) == RStrip(LStrip(s))

\* sub occurs in s at position i
OccursAt(s, sub, i) ==
    /\ i >= 1
    /\ i + Len(sub) - 1 <= Len(s)
    /\ SubSeq(s, i, i + Len(sub) - 1) = sub

\* str.find(sub, i-1) + 1: the first occurrence of sub in s at or after i, 0 if none
FindFrom(s, sub, i) ==
    LET range == i..(Len(s) - Len(sub) + 1) IN
    IF \E j \in range : OccursAt(s, sub, j)
    THEN CHOOSE j \in range :
            /\ OccursAt(s, sub, j)
            /\ \A k \in i..(j - 1) : ~OccursAt(s, sub, k)
    ELSE 0

\* `sub in s`
Contains(s, sub) == FindFrom(s, sub, 1) # 0

(***************************************************************************)
(* scripts/author_rewrite.py                                               *)
(***************************************************************************)
target_name == "Framers"

target_email == "team@frame.dev"

new_name == "Johnny Dunn"

new_email == "johnnyfived@protonmail.com"

\* identities the rewritten history may hold
Names == {target_name, "framers", new_name, "Alice"}

Emails == {target_email, new_email, "alice@example.org"}

Commits ==
    [author_name : Names, author_email : Emails,
     committer_name : Names, committer_email : Emails]

\* variant: the author is rewritten only when name and email both match
RewriteAuthor_BothMatch(c) ==
    IF c.author_name = target_name /\ c.author_email = target_email
    THEN [c EXCEPT !.author_name = new_name, !.author_email = new_email]
    ELSE c

\* lines 8-10: the author role
RewriteAuthor(c) ==
    IF c.author_name = target_name \/ c.author_email = target_email
    THEN [c EXCEPT !.author_name = new_name, !.author_email = new_email]
    ELSE c

\* lines 11-13: the committer role
RewriteCommitter(c) ==
    IF c.committer_name = target_name \/ c.committer_email = target_email
    THEN [c EXCEPT !.committer_name = new_name, !.committer_email = new_email]
    ELSE c

\* a commit of the history, before the callback runs on it
IdentityInit ==
    /\ commit \in Commits
    /\ orig = commit
    /\ ipc = "ready"
    /\ message = ""
    /\ nfrags = 0
    /\ mpc = "build"
    /\ first = ""
    /\ rest = ""
    /\ classified = ""
    /\ subj = ""
    /\ result = ""
    /\ exists = TRUE
    /\ disk = ""
    /\ disk0 = ""
    /\ nparts = 0
    /\ ppc = "build"
    /\ exitCode = 0
    /\ stderr = ""
    /\ writes = 0

\* the whole script body, run once on the commit
CommitCallback ==
    /\ ipc = "ready"
    /\ commit' = RewriteCommitter(RewriteAuthor(commit))
    /\ ipc' = "done"
    /\ UNCHANGED <<orig, messageVars, patchVars>>

\* git filter-repo moves on to the next commit of the history
NextCommit ==
    /\ ipc = "done"
    /\ \E c \in Commits :
        /\ commit' = c
        /\ orig' = c
    /\ ipc' = "ready"
    /\ UNCHANGED <<messageVars, patchVars>>

(***************************************************************************)
(* scripts/rename_commits.py                                               *)
(***************************************************************************)
\* variant: the table lacks the entry for the canonical "feat"
TYPES_NoFeat ==
    [feature |-> "feat", fix |-> "fix", bugfix |-> "fix",
     chore |-> "chore", docs |-> "docs", documentation |-> "docs",
     refactor |-> "refactor", test |-> "test", tests |-> "test",
     perf |-> "perf", performance |-> "perf", build |-> "build", ci |-> "ci",
     revert |-> "revert", wip |-> "chore", cleanup |-> "chore"]

TYPES ==
    [feature |-> "feat", feat |-> "feat", fix |-> "fix", bugfix |-> "fix",
     chore |-> "chore", docs |-> "docs", documentation |-> "docs",
     refactor |-> "refactor", test |-> "test", tests |-> "test",
     perf |-> "perf", performance |-> "perf", build |-> "build", ci |-> "ci",
     revert |-> "revert", wip |-> "chore", cleanup |-> "chore"]

\* variant: the lookup without .lower()
TypeOf_CaseSensitive(t) == IF t \in DOMAIN TYPES THEN TYPES[t] ELSE "chore"

\* TYPES.get(t.lower(), 'chore')
TypeOf(t) ==
    LET k == ToLower(t) IN IF k \in DOMAIN TYPES THEN TYPES[k] ELSE "chore"

\* ^([A-Za-z]+)(\([^)]*\))?: -- position of the colon, 0 if the head does not match
ColonPos(s0) ==
    LET n == SpanFrom(Letters, s0, 1) IN
    IF n = 0 THEN 0
    ELSE IF CharAt(s0, n + 1) = ":" THEN n + 1
    ELSE IF CharAt(s0, n + 1) = "("
         THEN LET q == FindFrom(s0, ")", n + 2) IN
              IF q # 0 /\ CharAt(s0, q + 1) = ":" THEN q + 1 ELSE 0
    ELSE 0

\* variant: "Fixed" is one of the alternatives
PrefixWords_WithFixed ==
    <<"WIP", "Fixed", "Fix", "Feature", "Docs", "Doc", "Refactor", "Test", "Perf", "Build", "CI">>

\* the alternatives of the second pattern, in the order the regex tries them
PrefixWords ==
    <<"WIP", "Fix", "Feature", "Docs", "Doc", "Refactor", "Test", "Perf", "Build", "CI">>

\* variant: the pattern without re.I
WordAt_CaseSensitive(s0, w) ==
    /\ Len(s0) >= Len(w)
    /\ SubSeq(s0, 1, Len(w)) = w
    /\ ~IsWordChar(CharAt(s0, Len(w) + 1))

\* variant: the pattern without \b
WordAt_NoBoundary(s0, w) ==
    /\ Len(s0) >= Len(w)
    /\ ToLower(SubSeq(s0, 1, Len(w))) = ToLower(w)

\* w matches at the start of s0 under re.I and \b holds right after it
WordAt(s0, w) ==
    /\ Len(s0) >= Len(w)
    /\ ToLower(SubSeq(s0, 1, Len(w))) = ToLower(w)
    /\ ~IsWordChar(CharAt(s0, Len(w) + 1))

\* regex class [:\s-]
SepChars == {":", "-"} \cup Whitespace

\* (.*)$ : the tail from position i on, matched only if it holds no newline
TailMatches(s0, i) == ~Contains(From(s0, i), "\n")

classify(s) ==
    LET s0 == Strip(s)
        c == ColonPos(s0)
        r1 == SpanFrom(Whitespace, s0, c + 1) + 1
        ws == {i \in 1..Len(PrefixWords) : WordAt(s0, PrefixWords[i])}
    IN
    IF c # 0 /\ TailMatches(s0, r1)
    THEN TypeOf(SubSeq(s0, 1, SpanFrom(Letters, s0, 1))) \o ": " \o Strip(From(s0, r1))
    ELSE IF ws # {}
              /\ LET w == PrefixWords[CHOOSE i \in ws : \A j \in ws : i <= j] IN
                 TailMatches(s0, SpanFrom(SepChars, s0, Len(w) + 1) + 1)
    THEN LET w == PrefixWords[CHOOSE i \in ws : \A j \in ws : i <= j]
             rawt == SubSeq(s0, 1, Len(w))
             r == Strip(From(s0, SpanFrom(SepChars, s0, Len(w) + 1) + 1))
         IN TypeOf(rawt) \o ": " \o (IF r # "" THEN r ELSE s0)
    ELSE IF s0 # "" THEN "chore: " \o s0 ELSE "chore: empty commit"

\* re.sub(r"\s+", " ", subj): a run of whitespace leaves one space
CollapseWs(s) ==
    Join([i \in 1..Len(s) |->
             IF ~IsSpace(CharAt(s, i)) THEN CharAt(s, i)
             ELSE IF IsSpace(CharAt(s, i - 1)) THEN "" ELSE " "],
         1, Len(s))

\* the slice bound of normalize_subject
MaxSubject == 120

\* subj[:n]
Truncate(s, n) == IF Len(s) > n THEN SubSeq(s, 1, n) ELSE s

normalize_subject(s) == Truncate(Strip(CollapseWs(classify(s))), MaxSubject)

\* In a byte string "~" stands for a byte that is not valid UTF-8; in a str "?"
\* stands for U+FFFD, and in a byte string for its three-byte encoding.
\* bytes.decode('utf-8', errors='replace')
Decode(b) == Join([i \in 1..Len(b) |-> IF CharAt(b, i) = "~" THEN "?" ELSE CharAt(b, i)], 1, Len(b))

\* str.encode('utf-8'); every symbol of a str has a valid encoding
Encode(s) == s

\* variant: the split at the last newline
SplitFirst_Last(text) ==
    LET nl == {k \in 1..Len(text) : CharAt(text, k) = "\n"} IN
    IF nl # {}
    THEN LET n == CHOOSE k \in nl : \A j \in nl : j <= k IN
         [first |-> SubSeq(text, 1, n - 1), rest |-> From(text, n + 1)]
    ELSE [first |-> text, rest |-> ""]

\* locals of rename_message after the split at the first newline
SplitFirst(text) ==
    LET n == FindFrom(text, "\n", 1) IN
    IF n # 0
    THEN [first |-> SubSeq(text, 1, n - 1), rest |-> From(text, n + 1)]
    ELSE [first |-> text, rest |-> ""]

rename_message(m) ==
    IF m = "" THEN "chore: empty commit"
    ELSE LET sp == SplitFirst(Strip(Decode(m)))
             sj == normalize_subject(sp.first)
             body == Strip(sp.rest)
         IN IF sp.rest # "" /\ body # ""
            THEN Encode(sj \o "\n\n" \o body)
            ELSE Encode(sj)

\* s * n
Repeat(s, n) == Join([i \in 1..n |-> s], 1, n)

\* a subject one character short of the slice bound
LongSubject == "fix: " \o Repeat("x", MaxSubject - 6)

\* messages the history starts from
Seeds ==
    {"", "Doc", "WIP", "BUGFIX", "Fix -", "Fix(x)", "BUGFIX: patch leak", "random text",
     "Fixed bug", "feat: x\n\nsome body", "\nfix: s", LongSubject}

\* pieces appended to a seed
Fragments == {"fix", "s", "1", ":", " ", "-", "(x)", "\n", "~"}

\* number of fragments appended to a seed
MaxFrags == 2

\* a commit message of the history, before the callback runs on it
MessageInit ==
    /\ commit = [author_name |-> "Alice", author_email |-> "alice@example.org",
                 committer_name |-> "Alice", committer_email |-> "alice@example.org"]
    /\ orig = commit
    /\ ipc = "done"
    /\ message \in Seeds
    /\ nfrags = 0
    /\ mpc = "build"
    /\ first = ""
    /\ rest = ""
    /\ classified = ""
    /\ subj = ""
    /\ result = ""
    /\ exists = TRUE
    /\ disk = ""
    /\ disk0 = ""
    /\ nparts = 0
    /\ ppc = "build"
    /\ exitCode = 0
    /\ stderr = ""
    /\ writes = 0

\* the history holds a commit whose message is one fragment longer
AppendFragment ==
    /\ mpc = "build"
    /\ nfrags < MaxFrags
    /\ \E f \in Fragments : message' = message \o f
    /\ nfrags' = nfrags + 1
    /\ UNCHANGED <<mpc, first, rest, classified, subj, result, identityVars, patchVars>>

\* git filter-repo calls rename_message(message)
RenameMessage ==
    /\ mpc = "build"
    /\ mpc' = "done"
    /\ LET sp == SplitFirst(Strip(Decode(message))) IN
       IF message = ""
       THEN UNCHANGED <<first, rest, classified, subj>>
       ELSE /\ first' = sp.first
            /\ rest' = sp.rest
            /\ classified' = classify(sp.first)
            /\ subj' = normalize_subject(sp.first)
    /\ result' = rename_message(message)
    /\ UNCHANGED <<message, nfrags, identityVars, patchVars>>

(***************************************************************************)
(* update_lemon_upsert.py (POSIX: write_text writes "\n" as it is)         *)
(***************************************************************************)
needle == "  await upsertUserFromSubscription({\n    email,\n    subscriptionStatus: normalizedStatus || 'active',\n    subscriptionTier: plan?.metadata?.tier ?? (normalizedStatus === 'active' ? 'unlimited' : 'metered'),\n    lemonSubscriptionId,\n"

replacement == "  await upsertUserFromSubscription({\n    email,\n    subscriptionStatus: normalizedStatus || 'active',\n    subscriptionTier: plan?.metadata?.tier ?? (normalizedStatus === 'active' ? 'unlimited' : 'metered'),\n    subscriptionPlanId: planId ?? null,\n    lemonSubscriptionId,\n"

\* the argument of SystemExit, printed on stderr
NotFoundMessage == "upsert call not found in lemonsqueezy service"

\* Path.read_text(): text mode with universal newlines, "\r\n" and "\r" read as "\n"
ReadText(bytes) ==
    Join([i \in 1..Len(bytes) |->
             IF CharAt(bytes, i) # "\r" THEN CharAt(bytes, i)
             ELSE IF CharAt(bytes, i + 1) = "\n" THEN "" ELSE "\n"],
         1, Len(bytes))

\* Path.write_text(text)
WriteText(text) == text

\* variant: the presence check left out
NeedlePresent_Unchecked(text) == TRUE

\* line 5: `needle not in text` is false
NeedlePresent(text) == Contains(text, needle)

\* variant: the new text is put in front of the old one, which stays
ReplaceFirst_KeepsOld(text, old, new) ==
    LET i == FindFrom(text, old, 1) IN
    IF i = 0 THEN text
    ELSE SubSeq(text, 1, i - 1) \o new \o From(text, i)

\* text.replace(old, new, 1)
ReplaceFirst(text, old, new) ==
    LET i == FindFrom(text, old, 1) IN
    IF i = 0 THEN text
    ELSE SubSeq(text, 1, i - 1) \o new \o From(text, i + Len(old))

\* the lines the two literals are made of, apart and with other line ends
NeedleHead == "  await upsertUserFromSubscription({\n    email,\n    subscriptionStatus: normalizedStatus || 'active',\n    subscriptionTier: plan?.metadata?.tier ?? (normalizedStatus === 'active' ? 'unlimited' : 'metered'),\n"

TailLine == "    lemonSubscriptionId,\n"

PlanLine == "    subscriptionPlanId: planId ?? null,\n"

NeedleCRLF == "  await upsertUserFromSubscription({\r\n    email,\r\n    subscriptionStatus: normalizedStatus || 'active',\r\n    subscriptionTier: plan?.metadata?.tier ?? (normalizedStatus === 'active' ? 'unlimited' : 'metered'),\r\n    lemonSubscriptionId,\r\n"

\* pieces the service file is put together from
Parts == {needle, replacement, NeedleCRLF, NeedleHead, TailLine, PlanLine, "  "}

\* number of pieces in the service file
MaxParts == 3

\* the service file, absent or empty, before the script runs
PatchInit ==
    /\ commit = [author_name |-> "Alice", author_email |-> "alice@example.org",
                 committer_name |-> "Alice", committer_email |-> "alice@example.org"]
    /\ orig = commit
    /\ ipc = "done"
    /\ message = ""
    /\ nfrags = 0
    /\ mpc = "build"
    /\ first = ""
    /\ rest = ""
    /\ classified = ""
    /\ subj = ""
    /\ result = ""
    /\ exists \in BOOLEAN
    /\ disk = ""
    /\ disk0 = ""
    /\ nparts = 0
    /\ ppc = "build"
    /\ exitCode = 0
    /\ stderr = ""
    /\ writes = 0

\* the service file, before the script runs, is one piece longer
AppendPart ==
    /\ ppc = "build"
    /\ exists
    /\ nparts < MaxParts
    /\ \E part \in Parts :
        /\ disk' = disk \o part
        /\ disk0' = disk \o part
    /\ nparts' = nparts + 1
    /\ UNCHANGED <<exists, ppc, exitCode, stderr, writes, identityVars, messageVars>>

\* the script, from read_text to the end of the process
RunScript ==
    /\ ppc = "build"
    /\ ppc' = "exit"
    /\ IF ~exists
       THEN \* read_text raises FileNotFoundError
            /\ exitCode' = 1
            /\ stderr' = "FileNotFoundError"
            /\ UNCHANGED <<disk, writes>>
       ELSE LET text == ReadText(disk) IN
            IF ~NeedlePresent(text)
            THEN \* raise SystemExit(message)
                 /\ exitCode' = 1
                 /\ stderr' = NotFoundMessage
                 /\ UNCHANGED <<disk, writes>>
            ELSE /\ disk' = WriteText(ReplaceFirst(text, needle, replacement))
                 /\ writes' = writes + 1
                 /\ exitCode' = 0
                 /\ UNCHANGED stderr
    /\ UNCHANGED <<exists, disk0, nparts, identityVars, messageVars>>

MessageNext == AppendFragment \/ RenameMessage

MessageSpec == MessageInit /\ [][MessageNext]_vars

PatchNext == AppendPart \/ RunScript

PatchSpec == PatchInit /\ [][PatchNext]_vars

IdentityNext == CommitCallback \/ NextCommit

IdentitySpec == IdentityInit /\ [][IdentityNext]_vars

\* C1: for each role independently, a role whose name is the target name or
\* whose email is the target email ends with both fields equal to the
\* replacement identity; a role matching neither keeps both fields, whatever
\* happened to the other role.
C1_IdentityRewrite ==
    ipc = "done" =>
        /\ IF orig.author_name = "Framers" \/ orig.author_email = "team@frame.dev"
           THEN /\ commit.author_name = "Johnny Dunn"
                /\ commit.author_email = "johnnyfived@protonmail.com"
           ELSE /\ commit.author_name = orig.author_name
                /\ commit.author_email = orig.author_email
        /\ IF orig.committer_name = "Framers" \/ orig.committer_email = "team@frame.dev"
           THEN /\ commit.committer_name = "Johnny Dunn"
                /\ commit.committer_email = "johnnyfived@protonmail.com"
           ELSE /\ commit.committer_name = orig.committer_name
                /\ commit.committer_email = orig.committer_email

\* a commit whose author matched by email only and whose committer did not match
C1_Witness ==
    /\ ipc = "done"
    /\ orig.author_name = "Alice"
    /\ orig.author_email = "team@frame.dev"
    /\ commit.author_name = "Johnny Dunn"
    /\ orig.committer_name = "framers"
    /\ commit.committer_name = "framers"

(***************************************************************************)
(* Properties of rename_commits.py.  They are stated on the trimmed first  *)
(* line, independently of the way classify computes its result.            *)
(***************************************************************************)
\* the trimmed first line classify worked on
Line == Strip(first)

\* L reads <letters>[(<scope>)]: <rest> with the letters ending at i and the
\* colon at j + 1
HasTypeColon(L, i, j) ==
    /\ CharAt(L, j + 1) = ":"
    /\ \/ j = i
       \/ /\ j >= i + 2
          /\ CharAt(L, i + 1) = "("
          /\ CharAt(L, j) = ")"
          /\ \A k \in (i + 2)..(j - 1) : CharAt(L, k) # ")"
    /\ i >= 1
    /\ \A k \in 1..i : CharAt(L, k) \in Letters

IsRule1Line(L) == \E i \in 1..Len(L) : \E j \in i..Len(L) : HasTypeColon(L, i, j)

\* the canonical type of a type token
Canonical(t) == IF ToLower(t) \in DOMAIN TYPES THEN TYPES[ToLower(t)] ELSE "chore"

\* C2: a first line <letters>[(<scope>)]: <rest> is classified as
\* "<canonical-type>: <rest trimmed>", the scope dropped, whether or not the
\* line also starts with a recognized prefix word; "BUGFIX: patch leak" gives
\* "fix: patch leak".
C2_TypeColonRule ==
    (mpc = "done" /\ message # "") =>
        \A L \in {Line} :
            /\ \A i \in 1..Len(L) : \A j \in i..Len(L) :
                  HasTypeColon(L, i, j) =>
                      classified = Canonical(SubSeq(L, 1, i)) \o ": "
                                       \o Strip(From(L, j + 2))
            /\ L = "BUGFIX: patch leak" => classified = "fix: patch leak"
            /\ L = "feat: x" => classified = "feat: x"

\* a scoped line that also starts with a prefix word: rule 1 wins, scope dropped
C2_Witness ==
    /\ mpc = "done"
    /\ first = "Fix(x):s"
    /\ classified = "fix: s"

\* the recognized prefix words with the type each one maps to
PrefixTypes ==
    [wip |-> "chore", fix |-> "fix", feature |-> "feat", docs |-> "docs",
     doc |-> "chore", refactor |-> "refactor", test |-> "test", perf |-> "perf",
     build |-> "build", ci |-> "ci"]

Separators == {":", "-"} \cup Whitespace

PrefixLengths == {Len(w) : w \in DOMAIN PrefixTypes}

\* L starts with the n letters of a recognized prefix word, in any letter case
StartsWithPrefixWord(L, n) ==
    /\ n \in 1..Len(L)
    /\ ToLower(SubSeq(L, 1, n)) \in DOMAIN PrefixTypes

\* what follows the run of separators that starts at position i
AfterSeparators(L, i) ==
    IF \E k \in i..Len(L) : CharAt(L, k) \notin Separators
    THEN From(L, CHOOSE k \in i..Len(L) :
                    /\ CharAt(L, k) \notin Separators
                    /\ \A m \in i..(k - 1) : CharAt(L, m) \in Separators)
    ELSE ""

\* C3: a first line that is not of the rule 1 form and starts with a
\* recognized prefix word (any letter case) followed by a separator (colon,
\* whitespace, hyphen) is classified as "<type>: <remainder>", the type being
\* the mapping's value for the word ("chore" for Doc and WIP) and the remainder
\* what follows the separators, or the whole trimmed line if nothing follows.
C3_PrefixWordRule ==
    (mpc = "done" /\ message # "") =>
        \A L \in {Line} :
            ~IsRule1Line(L) =>
                \A n \in PrefixLengths :
                    (StartsWithPrefixWord(L, n) /\ CharAt(L, n + 1) \in Separators) =>
                        LET remainder == AfterSeparators(L, n + 1) IN
                        classified = PrefixTypes[ToLower(SubSeq(L, 1, n))] \o ": "
                                         \o (IF remainder = "" THEN L ELSE remainder)

\* prefix word in lower case, hyphen and whitespace as separators, a remainder
C3_Witness ==
    /\ mpc = "done"
    /\ first = "Fix -s"
    /\ classified = "fix: s"

\* rule 2 as the specification words it: a prefix word followed by a
\* separator, or by nothing at all
IsRule2LineAsSpecified(L) ==
    \E n \in PrefixLengths :
        /\ StartsWithPrefixWord(L, n)
        /\ n = Len(L) \/ CharAt(L, n + 1) \in Separators

\* rule 2 as the pattern has it: a prefix word followed by a word boundary
IsRule2Line(L) ==
    \E n \in PrefixLengths :
        /\ StartsWithPrefixWord(L, n)
        /\ CharAt(L, n + 1) \notin WordChars

\* the "chore" default for a trimmed line
ChoreDefault(L) == IF L = "" THEN "chore: empty commit" ELSE "chore: " \o L

\* C4 as claimed: an empty message gives "chore: empty commit", and a first
\* line that is neither of the rule 1 form nor a prefix word followed by a
\* separator is returned as "chore: <trimmed line>" ("chore: empty commit"
\* when the trimmed line is empty).
C4_AsClaimed ==
    mpc = "done" =>
        /\ message = "" => result = "chore: empty commit"
        /\ message # "" =>
               \A L \in {Line} :
                   (~IsRule1Line(L) /\ ~IsRule2LineAsSpecified(L)) =>
                       classified = ChoreDefault(L)

\* C4: an empty or whitespace-only message gives "chore: empty commit", and a
\* first line that is neither of the rule 1 form nor a prefix word followed by
\* a word boundary (the end of the line or any non-word character) is returned
\* as "chore: <trimmed line>"; "random text" gives "chore: random text".
C4_ChoreDefault ==
    mpc = "done" =>
        /\ message = "" => result = "chore: empty commit"
        /\ Strip(message) = "" => result = "chore: empty commit"
        /\ message # "" =>
               \A L \in {Line} :
                   /\ (~IsRule1Line(L) /\ ~IsRule2Line(L)) => classified = ChoreDefault(L)
                   /\ L = "random text" => classified = "chore: random text"

\* a prefix word directly followed by a digit falls through to the default
C4_Witness ==
    /\ mpc = "done"
    /\ first = "Doc1"
    /\ classified = "chore: Doc1"

\* the subject line of a returned message
SubjectOf(m) ==
    IF \E k \in 1..Len(m) : CharAt(m, k) = "\n"
    THEN SubSeq(m, 1, (CHOOSE k \in 1..Len(m) :
                          /\ CharAt(m, k) = "\n"
                          /\ \A j \in 1..(k - 1) : CharAt(m, j) # "\n") - 1)
    ELSE m

\* C5: the subject of the returned message has every whitespace run collapsed
\* to a single space, has no leading or trailing whitespace, and is at most
\* 120 characters long.
C5_SubjectNormalized ==
    mpc = "done" =>
        \A S \in {SubjectOf(result)} :
            /\ \A k \in 1..Len(S) :
                  CharAt(S, k) \in Whitespace =>
                      /\ CharAt(S, k) = " "
                      /\ CharAt(S, k + 1) \notin Whitespace
            /\ CharAt(S, 1) \notin Whitespace
            /\ CharAt(S, Len(S)) \notin Whitespace
            /\ Len(S) <= 120

\* the part of s before its first newline (all of s if it has none)
BeforeNewline(s) == SubjectOf(s)

\* the part of s after its first newline ("" if it has none)
AfterNewline(s) ==
    IF Len(BeforeNewline(s)) = Len(s) THEN "" ELSE From(s, Len(BeforeNewline(s)) + 2)

CanonicalTypes == {TYPES[k] : k \in DOMAIN TYPES}

\* C9: a subject "type: rest" with a canonical lower-case type and a trimmed
\* rest is returned unchanged by classify, and classifying a classified
\* subject again changes nothing.
C9_Idempotent ==
    (mpc = "done" /\ message # "") =>
        /\ classify(classified) = classified
        /\ \A t \in CanonicalTypes :
              LET r == From(first, Len(t) + 3) IN
              (Len(first) >= Len(t) + 2 /\ SubSeq(first, 1, Len(t) + 2) = t \o ": "
                   /\ Strip(r) = r)
                  => classified = first

\* an already classified subject whose rest itself looks like a type
C9_Witness ==
    /\ mpc = "done"
    /\ first = "fix: s:s"
    /\ classified = "fix: s:s"

\* C10 as claimed: classify("Fixed bug") does not return "chore: Fixed bug".
C10_AsClaimed ==
    (mpc = "done" /\ first = "Fixed bug") => classified # "chore: Fixed bug"

\* the leading run of letters of a line
LeadingWord(L) == SubSeq(L, 1, SpanFrom(Letters, L, 1))

\* C10: a first line whose leading word extends a recognized prefix word by
\* further letters, is not itself a recognized word and is not followed by a
\* colon or a scope with a colon, falls through to the plain default;
\* classify("Fixed bug") returns "chore: Fixed bug".
C10_ExtendedWordIsChore ==
    (mpc = "done" /\ message # "") =>
        \A L \in {Line} :
            /\ \A n \in PrefixLengths :
                  (/\ StartsWithPrefixWord(L, n)
                   /\ CharAt(L, n + 1) \in Letters
                   /\ ToLower(LeadingWord(L)) \notin DOMAIN PrefixTypes
                   /\ ~IsRule1Line(L))
                      => classified = "chore: " \o L
            /\ L = "Fixed bug" => classified = "chore: Fixed bug"

C10_Witness ==
    /\ mpc = "done"
    /\ first = "Fixed bug"
    /\ classified = "chore: Fixed bug"

(***************************************************************************)
(* Properties of update_lemon_upsert.py                                    *)
(***************************************************************************)
\* number of places at which sub occurs in s
Count(s, sub) ==
    Cardinality({i \in 1..(Len(s) - Len(sub) + 1) : SubSeq(s, i, i + Len(sub) - 1) = sub})

\* C7: when the text of the file does not contain the expected fragment, the
\* process exits with a non-zero status and the message 'upsert call not
\* found in lemonsqueezy service', performs no write and leaves the file as
\* it was.
C7_AbortLeavesFile ==
    (ppc = "exit" /\ exists /\ Count(ReadText(disk0), needle) = 0) =>
        /\ exitCode # 0
        /\ stderr = "upsert call not found in lemonsqueezy service"
        /\ writes = 0
        /\ disk = disk0

\* a second run on a patched file
C7_Witness ==
    /\ ppc = "exit"
    /\ disk0 = replacement
    /\ exitCode = 1
    /\ disk = replacement

\* C8 as claimed: a file that contains the expected fragment exactly once
\* contains, after the run, the replacement fragment exactly once and the
\* original fragment zero times.
C8_AsClaimed ==
    (ppc = "exit" /\ exists /\ Count(disk0, needle) = 1) =>
        /\ Count(disk, replacement) = 1
        /\ Count(disk, needle) = 0

\* C8: a file whose text, as read with line ends normalized, contains the
\* expected fragment exactly once contains, after the run, the original
\* fragment zero times and the replacement fragment once more than its text
\* did before (exactly once if it held none); the text is rewritten with that
\* one occurrence replaced, in a single write.
C8_PatchedOnce ==
    (ppc = "exit" /\ exists) =>
        \A text \in {ReadText(disk0)} :
            Count(text, needle) = 1 =>
                /\ Count(disk, needle) = 0
                /\ Count(disk, replacement) = Count(text, replacement) + 1
                /\ Count(text, replacement) = 0 => Count(disk, replacement) = 1
                /\ \E i \in 1..Len(text) :
                      /\ SubSeq(text, i, i + Len(needle) - 1) = needle
                      /\ disk = SubSeq(text, 1, i - 1) \o replacement
                                    \o From(text, i + Len(needle))
                /\ writes = 1
                /\ exitCode = 0

\* the fragment, put together from its lines and followed by another line
C8_Witness ==
    /\ ppc = "exit"
    /\ disk0 = NeedleHead \o TailLine \o PlanLine
    /\ disk = replacement \o PlanLine
    /\ exitCode = 0
====
